---- MODULE Spec2Model ----
(***************************************************************************)
(* StationeryAI backend: the product catalog (table "products"), the sales *)
(* ledger (table "sales") and the request handlers of main.py that read    *)
(* and write them, together with the two administrative scripts            *)
(* insert_products.py and clear_sales.py.                                  *)
(*                                                                         *)
(* Representation.                                                         *)
(*  - A str is a TLA+ string in the state; Chars decodes it into its       *)
(*    characters so that str.lower() and the `in` substring test are       *)
(*    computed character by character.                                     *)
(*  - A nullable Float column is <<>> (NULL) or <<v>>, v in thousandths of *)
(*    a rupee, so that round(x, 2) has something to round.                 *)
(*  - sale_date keeps the year and the month, the only parts that          *)
(*    strftime("%Y-%m") reads.                                             *)
(*  - Product.price is kept in whole rupees, as in the seed list.          *)
(***************************************************************************)
EXTENDS Integers, Sequences, FiniteSets, TLC

VARIABLES products, sales, clock, updates, resp, threads

vars == <<products, sales, clock, updates, resp, threads>>

(***************************************************************************)
(* Bounds of the model.                                                    *)
(***************************************************************************)
SeedCount == 6
MaxCreated == 1
MaxSales == 2
MaxUpdates == 2
NumThreads == 3

(***************************************************************************)
(* Program constants.                                                      *)
(***************************************************************************)
SeedStock == 20000
LowStockThreshold == 500
DemandOffset == 5
FallbackCount == 5

(***************************************************************************)
(* Strings.                                                                *)
(***************************************************************************)
Chars(s) ==
  CASE s = "Trimax Pen" -> <<"T", "r", "i", "m", "a", "x", " ", "P", "e", "n">>
  [] s = "Reynolds Pen" -> <<"R", "e", "y", "n", "o", "l", "d", "s", " ", "P", "e", "n">>
  [] s = "Cello Gripper" -> <<"C", "e", "l", "l", "o", " ", "G", "r", "i", "p", "p", "e", "r">>
  [] s = "Parker Pen" -> <<"P", "a", "r", "k", "e", "r", " ", "P", "e", "n">>
  [] s = "Pilot V7" -> <<"P", "i", "l", "o", "t", " ", "V", "7">>
  [] s = "Classmate Notebook 200 Pages" -> <<"C", "l", "a", "s", "s", "m", "a", "t", "e", " ", "N", "o", "t", "e", "b", "o", "o", "k", " ", "2", "0", "0", " ", "P", "a", "g", "e", "s">>
  [] s = "Classmate Notebook 400 Pages" -> <<"C", "l", "a", "s", "s", "m", "a", "t", "e", " ", "N", "o", "t", "e", "b", "o", "o", "k", " ", "4", "0", "0", " ", "P", "a", "g", "e", "s">>
  [] s = "Navneet Notebook" -> <<"N", "a", "v", "n", "e", "e", "t", " ", "N", "o", "t", "e", "b", "o", "o", "k">>
  [] s = "Pen" -> <<"P", "e", "n">>
  [] s = "Notebook" -> <<"N", "o", "t", "e", "b", "o", "o", "k">>
  [] s = "Ink" -> <<"I", "n", "k">>
  [] s = "INK" -> <<"I", "N", "K">>
  [] s = "Refill" -> <<"R", "e", "f", "i", "l", "l">>
  [] s = "pen" -> <<"p", "e", "n">>
  [] s = "PEN" -> <<"P", "E", "N">>
  [] s = "zzz" -> <<"z", "z", "z">>
  [] s = "" -> <<>>

UpperToLower ==
  ("A" :> "a") @@ ("B" :> "b") @@ ("C" :> "c") @@ ("D" :> "d") @@ ("E" :> "e") @@
  ("F" :> "f") @@ ("G" :> "g") @@ ("H" :> "h") @@ ("I" :> "i") @@ ("J" :> "j") @@
  ("K" :> "k") @@ ("L" :> "l") @@ ("M" :> "m") @@ ("N" :> "n") @@ ("O" :> "o") @@
  ("P" :> "p") @@ ("Q" :> "q") @@ ("R" :> "r") @@ ("S" :> "s") @@ ("T" :> "t") @@
  ("U" :> "u") @@ ("V" :> "v") @@ ("W" :> "w") @@ ("X" :> "x") @@ ("Y" :> "y") @@
  ("Z" :> "z")

\* str.lower(): every upper-case letter is replaced, every other character kept.
lower(cs) ==
  [i \in 1..Len(cs) |-> IF cs[i] \in DOMAIN UpperToLower THEN UpperToLower[cs[i]] ELSE cs[i]]

\* needle in hay: needle occurs as a contiguous run of hay.
contains(hay, needle) ==
  \E i \in 0..(Len(hay) - Len(needle)) :
    \A j \in 1..Len(needle) : hay[i + j] = needle[j]

(***************************************************************************)
(* Generic helpers.                                                        *)
(***************************************************************************)
\* Python's sorted(): stable, ascending by key.  items is a sequence of
\* records that carry an integer field "key".
RECURSIVE InsertByKey(_, _)
InsertByKey(x, s) ==
  IF s = <<>> THEN <<x>>
  ELSE IF x.key < s[1].key THEN <<x>> \o s
  ELSE <<s[1]>> \o InsertByKey(x, Tail(s))

RECURSIVE StableSort(_)
StableSort(items) ==
  IF items = <<>> THEN <<>>
  ELSE InsertByKey(items[Len(items)], StableSort(SubSeq(items, 1, Len(items) - 1)))

Min(a, b) == IF a < b THEN a ELSE b

RECURSIVE SumSeq(_)
SumSeq(s) == IF s = <<>> THEN 0 ELSE s[1] + SumSeq(Tail(s))

\* The rows of a sequence that satisfy a test, in order.
RECURSIVE SelectIdx(_, _)
SelectIdx(n, S) ==
  IF n = 0 THEN <<>>
  ELSE IF n \in S THEN Append(SelectIdx(n - 1, S), n) ELSE SelectIdx(n - 1, S)

\* NULL and non-NULL column values.
NULL == <<>>
Val(v) == <<v>>

\* round(x, 2) on an amount in thousandths: to the nearest multiple of ten,
\* a tie going to the even hundredth.
round2(x) ==
  LET r == x % 10
      lo == x - r
  IN IF r < 5 THEN lo
     ELSE IF r > 5 THEN lo + 10
     ELSE IF (lo \div 10) % 2 = 0 THEN lo ELSE lo + 10

(***************************************************************************)
(* Seed data (insert_products.py, repeated at the end of main.py).         *)
(***************************************************************************)
products_list ==
  << <<"Trimax Pen", "Pen", 10>>,
     <<"Reynolds Pen", "Pen", 20>>,
     <<"Cello Gripper", "Pen", 15>>,
     <<"Parker Pen", "Pen", 250>>,
     <<"Pilot V7", "Pen", 120>>,
     <<"Classmate Notebook 200 Pages", "Notebook", 120>>,
     <<"Classmate Notebook 400 Pages", "Notebook", 220>>,
     <<"Navneet Notebook", "Notebook", 90>> >>

\* The catalog the seeding leaves: the first SeedCount rows of the list,
\* ids from 1 (the table was emptied first), stock 20000 each.
SeededCatalog ==
  [i \in 1..SeedCount |->
     [id |-> i, name |-> products_list[i][1], category |-> products_list[i][2],
      price |-> products_list[i][3], stock |-> SeedStock]]

\* Integer primary key: one more than the largest id in the table.
NextId(rows) == Len(rows) + 1

(***************************************************************************)
(* Responses.  kind is "message" for a JSON object that carries only a     *)
(* message, "list" for a JSON array, "object" for any other JSON object    *)
(* and "error" for an HTTP error (HTTPException, or an exception that      *)
(* escapes the handler: status 500).                                       *)
(***************************************************************************)
NoArgs == [none |-> TRUE]

Message(op, args, text) ==
  [op |-> op, args |-> args, status |-> 200, kind |-> "message", detail |-> text, body |-> <<>>]

List(op, args, rows) ==
  [op |-> op, args |-> args, status |-> 200, kind |-> "list", detail |-> "", body |-> rows]

Object(op, args, text, fields) ==
  [op |-> op, args |-> args, status |-> 200, kind |-> "object", detail |-> text, body |-> <<fields>>]

HTTPError(op, args, code, text) ==
  [op |-> op, args |-> args, status |-> code, kind |-> "error", detail |-> text, body |-> <<>>]

(***************************************************************************)
(* GET /predict-demand                                                     *)
(***************************************************************************)
\* demand[sale.product_name] += sale.quantity_sold on a defaultdict(int); the
\* dict is a sequence of items in insertion order.
demand_add(demand, sale) ==
  IF \E i \in 1..Len(demand) : demand[i].product_name = sale.product_name
  THEN [i \in 1..Len(demand) |->
          IF demand[i].product_name = sale.product_name
          THEN [demand[i] EXCEPT !.qty = @ + sale.quantity_sold]
          ELSE demand[i]]
  ELSE Append(demand, [product_name |-> sale.product_name, qty |-> 0 + sale.quantity_sold])

RECURSIVE demand_of(_)
demand_of(sales_data) ==
  IF sales_data = <<>> THEN <<>>
  ELSE demand_add(demand_of(SubSeq(sales_data, 1, Len(sales_data) - 1)),
                  sales_data[Len(sales_data)])

\* sorted(demand.items(), key=lambda x: x[1], reverse=True): stable, largest
\* first, which is the stable ascending order of the negated quantity.
demand_sort_key_asc(qty) == qty
demand_sort_key(qty) == 0 - qty

demand_sorted(demand) ==
  LET keyed == [i \in 1..Len(demand) |-> [key |-> demand_sort_key(demand[i].qty), item |-> demand[i]]]
      sorted == StableSort(keyed)
  IN [i \in 1..Len(sorted) |-> sorted[i].item]

predict_demand(sales_data) ==
  IF Len(sales_data) = 0
  THEN Message("predict_demand", NoArgs, "No sales data found. Add sales first.")
  ELSE LET predicted == demand_sorted(demand_of(sales_data))
       IN List("predict_demand", NoArgs,
               [i \in 1..Len(predicted) |->
                  [product_name |-> predicted[i].product_name,
                   predicted_demand |-> predicted[i].qty + DemandOffset]])

(***************************************************************************)
(* GET /monthly-report                                                     *)
(***************************************************************************)
\* func.strftime("%Y-%m", sale_date): the text "YYYY-MM"; texts of that shape
\* order as the numbers year * 100 + month do.
strftime_Ym(d) == d.year * 100 + d.month

\* SQL SUM over a nullable column: NULL rows are skipped, and the sum of no
\* non-NULL row is NULL.
sql_sum(values) ==
  LET present == SelectIdx(Len(values), {i \in 1..Len(values) : values[i] # NULL})
  IN IF present = <<>> THEN NULL
     ELSE Val(SumSeq([k \in 1..Len(present) |-> values[present[k]][1]]))

\* One row per month; SQLite's GROUP BY sorts on the grouping key, so the
\* rows come out ascending by month.
monthly_groups(sales_data) ==
  LET keyed == StableSort(
                   [k \in 1..Len(sales_data) |-> [key |-> strftime_Ym(sales_data[k].sale_date)]])
      firsts == SelectIdx(Len(keyed), {k \in 1..Len(keyed) : k = 1 \/ keyed[k].key # keyed[k - 1].key})
      rowsOf(m) == SelectIdx(Len(sales_data),
                             {i \in 1..Len(sales_data) : strftime_Ym(sales_data[i].sale_date) = m})
  IN [g \in 1..Len(firsts) |->
        LET m == keyed[firsts[g]].key
            rows == rowsOf(m)
        IN [month |-> m,
            total_sales |-> sql_sum([k \in 1..Len(rows) |-> sales_data[rows[k]].total_amount]),
            total_profit |-> sql_sum([k \in 1..Len(rows) |-> sales_data[rows[k]].profit]),
            total_items_sold |-> sql_sum([k \in 1..Len(rows) |-> Val(sales_data[rows[k]].quantity_sold)])]]

\* round(None, 2) raises TypeError, which leaves the handler: HTTP 500.
monthly_report(sales_data) ==
  LET report == monthly_groups(sales_data)
  IN IF Len(report) = 0
     THEN Message("monthly_report", NoArgs,
                  "No sales data available. Reports will appear after purchases.")
     ELSE IF \E g \in 1..Len(report) :
               report[g].total_sales = NULL \/ report[g].total_profit = NULL
     THEN HTTPError("monthly_report", NoArgs, 500, "Internal Server Error")
     ELSE List("monthly_report", NoArgs,
               [g \in 1..Len(report) |->
                  [month |-> report[g].month,
                   total_sales |-> round2(report[g].total_sales[1]),
                   total_profit |-> round2(report[g].total_profit[1]),
                   total_items_sold |-> report[g].total_items_sold[1]]])

(***************************************************************************)
(* GET /stock-report and GET /stock-alert                                  *)
(***************************************************************************)
\* db.query(func.sum(Sales.quantity_sold)).filter(Sales.product_name == name)
\*   .scalar()
sold_qty_query(sales_data, name) ==
  LET rows == SelectIdx(Len(sales_data),
                        {i \in 1..Len(sales_data) : sales_data[i].product_name = name})
  IN sql_sum([k \in 1..Len(rows) |-> Val(sales_data[rows[k]].quantity_sold)])

\* sold_qty = sold_qty if sold_qty else 0
sold_qty_or_zero(sold_qty) ==
  IF sold_qty # NULL /\ sold_qty[1] # 0 THEN sold_qty[1] ELSE 0

remaining_clamped(stock, sold_qty) == IF stock - sold_qty < 0 THEN 0 ELSE stock - sold_qty
remaining_of(stock, sold_qty) == stock - sold_qty

stock_report(catalog, sales_data) ==
  IF Len(sales_data) = 0
  THEN Message("stock_report", NoArgs,
               "No sales data available. Stock report will appear after purchases.")
  ELSE List("stock_report", NoArgs,
            [i \in 1..Len(catalog) |->
               LET p == catalog[i]
                   sold_qty == sold_qty_or_zero(sold_qty_query(sales_data, p.name))
               IN [product_name |-> p.name, category |-> p.category,
                   initial_stock |-> p.stock, sold_quantity |-> sold_qty,
                   remaining_stock |-> remaining_of(p.stock, sold_qty)]])

is_low_inclusive(remaining) == remaining <= LowStockThreshold
is_low(remaining) == remaining < LowStockThreshold

stock_alert(catalog, sales_data) ==
  IF Len(sales_data) = 0
  THEN Message("stock_alert", NoArgs, "No purchases yet. Alerts will appear after sales.")
  ELSE LET remainingOf(i) ==
             catalog[i].stock - sold_qty_or_zero(sold_qty_query(sales_data, catalog[i].name))
           low == SelectIdx(Len(catalog), {i \in 1..Len(catalog) : is_low(remainingOf(i))})
       IN List("stock_alert", NoArgs,
               [k \in 1..Len(low) |->
                  [product_name |-> catalog[low[k]].name,
                   remaining_stock |-> remainingOf(low[k]),
                   message |-> "Low Stock - Order More!"]])

(***************************************************************************)
(* POST /recommend                                                         *)
(***************************************************************************)
matches_case_sensitive(p, purpose, budget) ==
  /\ p.price <= budget
  /\ \/ contains(Chars(p.category), lower(Chars(purpose)))
     \/ contains(Chars(p.name), lower(Chars(purpose)))

\* p.price <= budget and (purpose in p.category.lower() or purpose in
\* p.name.lower()), purpose being data.purpose.lower()
matches(p, purpose, budget) ==
  /\ p.price <= budget
  /\ \/ contains(lower(Chars(p.category)), lower(Chars(purpose)))
     \/ contains(lower(Chars(p.name)), lower(Chars(purpose)))

\* sorted(products, key=lambda x: x.price)[:5]
cheapest(catalog) ==
  LET keyed == [i \in 1..Len(catalog) |-> [key |-> catalog[i].price, item |-> catalog[i]]]
      sorted == StableSort(keyed)
  IN [i \in 1..Min(FallbackCount, Len(sorted)) |-> sorted[i].item]

recommend_products(catalog, data) ==
  LET picked == SelectIdx(Len(catalog),
                          {i \in 1..Len(catalog) : matches(catalog[i], data.purpose, data.budget)})
      recommendations ==
        IF Len(picked) = 0 THEN cheapest(catalog)
        ELSE [k \in 1..Len(picked) |-> catalog[picked[k]]]
  IN List("recommend_products", data,
          [k \in 1..Len(recommendations) |->
             [id |-> recommendations[k].id, name |-> recommendations[k].name,
              category |-> recommendations[k].category, price |-> recommendations[k].price,
              stock |-> recommendations[k].stock]])

(***************************************************************************)
(* Requests the model sends.                                               *)
(***************************************************************************)
\* The instants datetime.utcnow() can return, oldest first; clock is the
\* position of the latest instant read so far.
Dates == << [year |-> 2025, month |-> 12], [year |-> 2026, month |-> 1] >>

ProductRequests ==
  { [name |-> "Ink", category |-> "Refill", price |-> 5, stock |-> 500],
    [name |-> "INK", category |-> "Pen", price |-> 300, stock |-> 0 - 1] }

RecommendRequests ==
  { [purpose |-> "PEN", budget |-> 100],
    [purpose |-> "pen", budget |-> 5],
    [purpose |-> "zzz", budget |-> 5],
    [purpose |-> "Ink", budget |-> 300] }

\* Bodies of POST /add-sales and POST /sales (SalesRequest).
SalesRequests ==
  { [product_name |-> "Trimax Pen", category |-> "Pen", quantity_sold |-> 19500,
     price |-> 10, total_amount |-> 195000004, profit |-> 2006],
    [product_name |-> "Trimax Pen", category |-> "Pen", quantity_sold |-> 1,
     price |-> 10, total_amount |-> 10004, profit |-> 2006],
    [product_name |-> "Ink", category |-> "Refill", quantity_sold |-> 1,
     price |-> 5, total_amount |-> 5002, profit |-> 1004] }

StockUpdateRequests ==
  { [product_id |-> i, quantity |-> q] :
      i \in {1, SeedCount + 1, 99}, q \in {0 - 1, 1, SeedStock} }

Threads == 1..NumThreads

ConcurrentUpdateRequests ==
  { [product_id |-> i, quantity |-> q] : i \in {1, 99}, q \in {1, SeedStock} }

(***************************************************************************)
(* Initial state: main.py has been imported, which empties the products    *)
(* table and inserts the seed list; no sale has been recorded.             *)
(***************************************************************************)
IdleThread == [pc |-> "idle", product_id |-> 0, quantity |-> 0, stock |-> 0,
               result |-> "none", remaining_stock |-> 0]

Init ==
  /\ products = SeededCatalog
  /\ sales = <<>>
  /\ clock = 1
  /\ updates = 0
  /\ resp = Message("home", NoArgs, "StationeryAI Backend Running Successfully")
  /\ threads = [t \in Threads |-> IdleThread]

(***************************************************************************)
(* Handlers, one request served at a time.                                 *)
(***************************************************************************)
\* POST /products
add_product(product) ==
  /\ Len(products) < SeedCount + MaxCreated
  /\ LET new_product == [id |-> NextId(products), name |-> product.name,
                         category |-> product.category, price |-> product.price,
                         stock |-> product.stock]
     IN /\ products' = Append(products, new_product)
        /\ resp' = Object("add_product", product, "", new_product)
  /\ UNCHANGED <<sales, clock, updates, threads>>

\* GET /products
get_products ==
  /\ resp' = List("get_products", NoArgs, products)
  /\ UNCHANGED <<products, sales, clock, updates, threads>>

\* POST /recommend
recommend ==
  \E data \in RecommendRequests :
    /\ resp' = recommend_products(products, data)
    /\ UNCHANGED <<products, sales, clock, updates, threads>>

\* POST /sales: total_amount and profit are not stored; sale_date takes the
\* column default, datetime.utcnow.
add_sales_legacy(data) ==
  /\ Len(sales) < MaxSales
  /\ \E c \in clock..Len(Dates) :
       /\ clock' = c
       /\ sales' = Append(sales,
            [id |-> NextId(sales), product_name |-> data.product_name,
             category |-> data.category, quantity_sold |-> data.quantity_sold,
             price |-> data.price, total_amount |-> NULL, profit |-> NULL,
             sale_date |-> Dates[c]])
  /\ resp' = Message("add_sales_legacy", data, "Sales record added successfully")
  /\ UNCHANGED <<products, updates, threads>>

\* POST /add-sales
add_sales(data) ==
  /\ Len(sales) < MaxSales
  /\ \E c \in clock..Len(Dates) :
       /\ clock' = c
       /\ sales' = Append(sales,
            [id |-> NextId(sales), product_name |-> data.product_name,
             category |-> data.category, quantity_sold |-> data.quantity_sold,
             price |-> data.price, total_amount |-> Val(data.total_amount),
             profit |-> Val(data.profit), sale_date |-> Dates[c]])
  /\ resp' = Message("add_sales", data, "Sales added successfully")
  /\ UNCHANGED <<products, updates, threads>>

\* GET /sales
get_sales ==
  /\ resp' = List("get_sales", NoArgs, sales)
  /\ UNCHANGED <<products, sales, clock, updates, threads>>

\* GET /predict-demand
get_predict_demand ==
  /\ resp' = predict_demand(sales)
  /\ UNCHANGED <<products, sales, clock, updates, threads>>

\* GET /monthly-report
get_monthly_report ==
  /\ resp' = monthly_report(sales)
  /\ UNCHANGED <<products, sales, clock, updates, threads>>

\* GET /stock-report
get_stock_report ==
  /\ resp' = stock_report(products, sales)
  /\ UNCHANGED <<products, sales, clock, updates, threads>>

\* GET /stock-alert
get_stock_alert ==
  /\ resp' = stock_alert(products, sales)
  /\ UNCHANGED <<products, sales, clock, updates, threads>>

\* db.query(Product).filter(Product.id == product_id).first(): the position
\* of the row, 0 when there is none.
find_product(catalog, product_id) ==
  IF \E i \in 1..Len(catalog) : catalog[i].id = product_id
  THEN CHOOSE i \in 1..Len(catalog) :
         /\ catalog[i].id = product_id
         /\ \A j \in 1..(i - 1) : catalog[j].id # product_id
  ELSE 0

\* product.stock < data.quantity
insufficient_inclusive(stock, quantity) == stock <= quantity
insufficient(stock, quantity) == stock < quantity

\* product.stock -= data.quantity; db.commit(): the row is rewritten with the
\* value computed from the stock that was read.
write_stock(catalog, i, value) == [catalog EXCEPT ![i].stock = value]

\* PUT /update-stock
update_stock(data) ==
  LET i == find_product(products, data.product_id)
  IN /\ IF i = 0
        THEN /\ resp' = HTTPError("update_stock", data, 404, "Product not found")
             /\ UNCHANGED <<products, updates>>
        ELSE IF insufficient(products[i].stock, data.quantity)
        THEN /\ resp' = HTTPError("update_stock", data, 400, "Not enough stock")
             /\ UNCHANGED <<products, updates>>
        ELSE /\ updates < MaxUpdates
             /\ products' = write_stock(products, i, products[i].stock - data.quantity)
             /\ updates' = updates + 1
             /\ resp' = Object("update_stock", data, "Stock updated successfully",
                               [remaining_stock |-> products'[i].stock])
     /\ UNCHANGED <<sales, clock, threads>>

\* clear_sales.py
clear_sales ==
  /\ sales' = <<>>
  /\ resp' = Message("clear_sales", NoArgs, "All sales deleted successfully!")
  /\ UNCHANGED <<products, clock, updates, threads>>

\* insert_products.py
insert_products ==
  /\ products' = SeededCatalog
  /\ resp' = Message("insert_products", NoArgs, "Products inserted successfully!")
  /\ UNCHANGED <<sales, clock, updates, threads>>

Next ==
  \/ \E product \in ProductRequests : add_product(product)
  \/ get_products
  \/ recommend
  \/ \E data \in SalesRequests : add_sales_legacy(data)
  \/ \E data \in SalesRequests : add_sales(data)
  \/ get_sales
  \/ get_predict_demand
  \/ get_monthly_report
  \/ get_stock_report
  \/ get_stock_alert
  \/ \E data \in StockUpdateRequests : update_stock(data)
  \/ clear_sales
  \/ insert_products

Spec == Init /\ [][Next]_vars

(***************************************************************************)
(* Focused specifications: the handlers that write the tables a view reads *)
(* and the view itself.                                                    *)
(***************************************************************************)
NextDemand ==
  \/ \E data \in SalesRequests : add_sales_legacy(data)
  \/ \E data \in SalesRequests : add_sales(data)
  \/ clear_sales
  \/ get_predict_demand

SpecDemand == Init /\ [][NextDemand]_vars

NextStock ==
  \/ \E product \in ProductRequests : add_product(product)
  \/ \E data \in SalesRequests : add_sales(data)
  \/ \E data \in StockUpdateRequests : update_stock(data)
  \/ get_stock_report
  \/ get_stock_alert

SpecStock == Init /\ [][NextStock]_vars

NextCatalog ==
  \/ \E product \in ProductRequests : add_product(product)
  \/ \E data \in StockUpdateRequests : update_stock(data)
  \/ insert_products
  \/ recommend

SpecCatalog == Init /\ [][NextCatalog]_vars

(***************************************************************************)
(* PUT /update-stock served concurrently.  The endpoint is a plain def, so *)
(* FastAPI runs each request on a worker thread with a session of its own; *)
(* the handler reads the row, tests and subtracts in Python, writes the    *)
(* result back on commit, and reads the row again for the response         *)
(* (the session expires its objects on commit).                            *)
(***************************************************************************)
\* A request arrives.
begin_update(t, data) ==
  /\ threads[t].pc = "idle"
  /\ threads' = [threads EXCEPT ![t] =
       [@ EXCEPT !.pc = "query", !.product_id = data.product_id, !.quantity = data.quantity]]
  /\ UNCHANGED <<products, sales, clock, updates, resp>>

\* product = db.query(Product)...first(), and the two tests on it.
query_product(t) ==
  /\ threads[t].pc = "query"
  /\ LET i == find_product(products, threads[t].product_id)
     IN threads' = [threads EXCEPT ![t] =
          IF i = 0
          THEN [@ EXCEPT !.pc = "done", !.result = "Product not found"]
          ELSE IF insufficient(products[i].stock, threads[t].quantity)
          THEN [@ EXCEPT !.pc = "done", !.result = "Not enough stock"]
          ELSE [@ EXCEPT !.pc = "commit", !.stock = products[i].stock]]
  /\ UNCHANGED <<products, sales, clock, updates, resp>>

\* product.stock -= data.quantity; db.commit()
commit_update(t) ==
  /\ threads[t].pc = "commit"
  /\ LET i == find_product(products, threads[t].product_id)
     IN products' = write_stock(products, i, threads[t].stock - threads[t].quantity)
  /\ threads' = [threads EXCEPT ![t] = [@ EXCEPT !.pc = "respond"]]
  /\ UNCHANGED <<sales, clock, updates, resp>>

\* return {..., "remaining_stock": product.stock}
respond_update(t) ==
  /\ threads[t].pc = "respond"
  /\ LET i == find_product(products, threads[t].product_id)
     IN threads' = [threads EXCEPT ![t] =
          [@ EXCEPT !.pc = "done", !.result = "Stock updated successfully",
                    !.remaining_stock = products[i].stock]]
  /\ UNCHANGED <<products, sales, clock, updates, resp>>

NextConc ==
  \/ \E t \in Threads : \E data \in ConcurrentUpdateRequests : begin_update(t, data)
  \/ \E t \in Threads : query_product(t)
  \/ \E t \in Threads : commit_update(t)
  \/ \E t \in Threads : respond_update(t)

SpecConc == Init /\ [][NextConc]_vars

(***************************************************************************)
(* Properties.  The quantities below are computed from the tables directly,*)
(* not through the handlers' helpers.                                      *)
(***************************************************************************)
RECURSIVE QtyOver(_)
QtyOver(S) ==
  IF S = {} THEN 0
  ELSE LET i == CHOOSE j \in S : TRUE
       IN sales[i].quantity_sold + QtyOver(S \ {i})

\* Sum of quantity_sold over the SaleEvents with exactly this product name.
LedgerQty(name) == QtyOver({i \in 1..Len(sales) : sales[i].product_name = name})

LedgerNames == {sales[i].product_name : i \in 1..Len(sales)}

\* Stock minus lifetime quantity sold, for the product at position i.
Remaining(i) == products[i].stock - LedgerQty(products[i].name)

\* C1: over a non-empty Ledger, Demand Ranking returns exactly one entry per
\* distinct product name of the Ledger, each predicted_demand is the sum of
\* quantity_sold for that name plus 5, and the entries are ordered
\* non-increasing by that sum.
C1_DemandRanking ==
  (resp.op = "predict_demand" /\ sales # <<>>) =>
    /\ resp.kind = "list"
    /\ Len(resp.body) = Cardinality(LedgerNames)
    /\ \A name \in LedgerNames :
         \E k \in 1..Len(resp.body) : resp.body[k].product_name = name
    /\ \A k \in 1..Len(resp.body) :
         /\ resp.body[k].product_name \in LedgerNames
         /\ resp.body[k].predicted_demand = LedgerQty(resp.body[k].product_name) + 5
    /\ \A k \in 1..(Len(resp.body) - 1) :
         LedgerQty(resp.body[k].product_name) >= LedgerQty(resp.body[k + 1].product_name)

\* A ranking of two names whose larger sum was recorded last, so the sort
\* had to move it to the front.
C1_Witness ==
  /\ resp.op = "predict_demand"
  /\ Len(sales) = 2
  /\ Len(resp.body) = 2
  /\ sales[1].quantity_sold < sales[2].quantity_sold
  /\ resp.body[1].product_name = sales[2].product_name
  /\ resp.body[1].predicted_demand > resp.body[2].predicted_demand

\* C3: over a non-empty Ledger, Stock Report returns one entry for every
\* Product, sold_quantity is the sum of quantity_sold over the SaleEvents with
\* exactly the product's name (0 when none), and remaining_stock is the stock
\* minus sold_quantity, not clamped at zero.
C3_StockReport ==
  (resp.op = "stock_report" /\ sales # <<>>) =>
    /\ resp.kind = "list"
    /\ Len(resp.body) = Len(products)
    /\ \A i \in 1..Len(products) :
         /\ resp.body[i].product_name = products[i].name
         /\ resp.body[i].sold_quantity = LedgerQty(products[i].name)
         /\ resp.body[i].remaining_stock = products[i].stock - LedgerQty(products[i].name)

\* A report with an oversold product (negative remaining) next to a product
\* that no sale names.
C3_Witness ==
  /\ resp.op = "stock_report"
  /\ resp.kind = "list"
  /\ \E i \in 1..Len(resp.body) :
       /\ resp.body[i].initial_stock > 0
       /\ resp.body[i].sold_quantity > resp.body[i].initial_stock
       /\ resp.body[i].remaining_stock < 0
  /\ \E i \in 1..Len(resp.body) :
       resp.body[i].sold_quantity = 0 /\ resp.body[i].remaining_stock = products[i].stock

\* C4: over a non-empty Ledger, a Product is in Stock Alert if and only if its
\* remaining is strictly below 500 (exactly 500 does not alert), and the
\* remaining_stock of an alert is the one Stock Report gives for that product
\* on the same data.
C4_StockAlert ==
  (resp.op = "stock_alert" /\ sales # <<>>) =>
    /\ resp.kind = "list"
    /\ Len(resp.body) = Cardinality({i \in 1..Len(products) : Remaining(i) < 500})
    /\ \A i \in 1..Len(products) :
         /\ (Remaining(i) < 500) <=>
              \E k \in 1..Len(resp.body) :
                /\ resp.body[k].product_name = products[i].name
                /\ resp.body[k].remaining_stock = Remaining(i)
         /\ Remaining(i) = stock_report(products, sales).body[i].remaining_stock

\* An alert list computed while one product stands at exactly 500 and
\* another at 499.
C4_Witness ==
  /\ resp.op = "stock_alert"
  /\ resp.kind = "list"
  /\ \E i \in 1..Len(products) :
       /\ Remaining(i) = 500
       /\ \A k \in 1..Len(resp.body) : resp.body[k].product_name # products[i].name
  /\ \E k \in 1..Len(resp.body) : resp.body[k].remaining_stock = 499

\* needle is a contiguous run of hay.
IsSubstring(needle, hay) ==
  \E a \in 1..(Len(hay) + 1) : \E b \in 0..Len(hay) : SubSeq(hay, a, b) = needle

\* The catalog positions a recommendation request selects.
Selected(data) ==
  {i \in 1..Len(products) :
     /\ products[i].price <= data.budget
     /\ \/ IsSubstring(lower(Chars(data.purpose)), lower(Chars(products[i].category)))
        \/ IsSubstring(lower(Chars(data.purpose)), lower(Chars(products[i].name)))}

Summary(p) ==
  [id |-> p.id, name |-> p.name, category |-> p.category, price |-> p.price, stock |-> p.stock]

C8_UpdateStock ==
  [][ resp'.op = "update_stock" =>
        LET data == resp'.args
            hit == {i \in 1..Len(products) : products[i].id = data.product_id}
        IN IF hit = {}
           THEN /\ resp'.status = 404 /\ resp'.detail = "Product not found"
                /\ products' = products /\ sales' = sales
           ELSE \A i \in hit :
                  IF data.quantity > products[i].stock
                  THEN /\ resp'.status = 400 /\ resp'.detail = "Not enough stock"
                       /\ products' = products /\ sales' = sales
                  ELSE /\ resp'.status = 200
                       /\ products'[i].stock = products[i].stock - data.quantity
                       /\ resp'.body[1].remaining_stock = products'[i].stock ]_vars

\* A decrement of exactly the whole stock has succeeded and left 0.
C8_Witness ==
  /\ resp.op = "update_stock"
  /\ resp.status = 200
  /\ resp.args.quantity = SeedStock
  /\ resp.body[1].remaining_stock = 0
  /\ \E i \in 1..Len(products) : products[i].id = resp.args.product_id /\ products[i].stock = 0

RECURSIVE SucceededQty(_, _)
\* Sum of the amounts of the requests among S that decremented product id.
SucceededQty(S, id) ==
  IF S = {} THEN 0
  ELSE LET t == CHOOSE u \in S : TRUE
       IN (IF threads[t].product_id = id /\ threads[t].result = "Stock updated successfully"
           THEN threads[t].quantity ELSE 0) + SucceededQty(S \ {t}, id)

\* C2: for any interleaving of concurrent decrements on one product, once
\* every request has been answered the amounts of the successful decrements
\* add up to the initial stock minus the final stock (no lost update).
C2_NoLostUpdate ==
  (\A t \in Threads : threads[t].pc = "done") =>
    \A i \in 1..Len(products) :
      SucceededQty(Threads, products[i].id) = SeedStock - products[i].stock

RECURSIVE AmountOver(_, _)
\* Sum of a nullable column over the SaleEvents in S, NULL counting as 0.
AmountOver(S, column) ==
  IF S = {} THEN 0
  ELSE LET i == CHOOSE j \in S : TRUE
           v == IF column = "total_amount" THEN sales[i].total_amount ELSE sales[i].profit
       IN (IF v = NULL THEN 0 ELSE v[1]) + AmountOver(S \ {i}, column)

LedgerMonths == {strftime_Ym(sales[i].sale_date) : i \in 1..Len(sales)}

SalesOfMonth(m) == {i \in 1..Len(sales) : strftime_Ym(sales[i].sale_date) = m}

\* C6: over a non-empty Ledger, Monthly Rollup returns one entry per month
\* present in the Ledger, ascending by month, whose total_sales, total_profit
\* (to 2 decimals) and total_items_sold are the sums over that month's
\* SaleEvents; a month whose SaleEvents all have a null profit or
\* total_amount yields 0 for that sum, not null and not a failure.
C6_MonthlyRollup ==
  (resp.op = "monthly_report" /\ sales # <<>>) =>
    /\ resp.kind = "list"
    /\ Len(resp.body) = Cardinality(LedgerMonths)
    /\ \A k \in 1..(Len(resp.body) - 1) : resp.body[k].month < resp.body[k + 1].month
    /\ \A k \in 1..Len(resp.body) :
         /\ resp.body[k].month \in LedgerMonths
         /\ resp.body[k].total_sales =
              round2(AmountOver(SalesOfMonth(resp.body[k].month), "total_amount"))
         /\ resp.body[k].total_profit =
              round2(AmountOver(SalesOfMonth(resp.body[k].month), "profit"))
         /\ resp.body[k].total_items_sold = QtyOver(SalesOfMonth(resp.body[k].month))

Reports == {"predict_demand", "monthly_report", "stock_report", "stock_alert"}

\* C7: while the Ledger holds no SaleEvent each of the four reports returns
\* the "no data" message object, never a collection, however many Products
\* exist; as soon as the Ledger holds a SaleEvent each returns a list.
C7_EmptyDataset ==
  (resp.op \in Reports) =>
    /\ sales = <<>> => (resp.kind = "message" /\ resp.body = <<>>)
    /\ sales # <<>> => resp.kind = "list"

\* C9: in every reachable state every Product's stock is a non-negative
\* integer.
C9_StockNonNegative ==
  \A i \in 1..Len(products) : products[i].stock >= 0

\* C10: a Product is mutated only by stock decrements: its name, category and
\* price never change, no request other than update-stock changes a stock,
\* add-sales and the report and recommend requests leave the Catalog as it
\* was, update-stock leaves the Ledger as it was, and without a bulk-clear a
\* stock never increases.
C10_ProductFrame ==
  [][ resp'.op # "insert_products" =>
        /\ Len(products') >= Len(products)
        /\ \A i \in 1..Len(products) :
             /\ products'[i].id = products[i].id
             /\ products'[i].name = products[i].name
             /\ products'[i].category = products[i].category
             /\ products'[i].price = products[i].price
             /\ resp'.op # "update_stock" => products'[i].stock = products[i].stock
             /\ products'[i].stock <= products[i].stock
        /\ resp'.op \notin {"update_stock", "add_product"} => products' = products
        /\ resp'.op = "update_stock" => sales' = sales ]_vars

====
